---- MODULE Spec2Model ----
(***************************************************************************)
(* Credential and session lifecycle of the Learning-Platform repository.   *)
(*                                                                         *)
(* Server side (Spec): the AuthService of server/src/config/database.ts    *)
(* behind the AuthController, with the single-use tokens of                *)
(* entities/VerificationToken.ts.  Every handler is cut at its awaits, so  *)
(* that concurrent requests interleave exactly where the code allows it.   *)
(*                                                                         *)
(* Client side (SpecClient, SpecCoalesce): the axios based AuthService of  *)
(* src/services/authService.ts: localStorage keys, request and response    *)
(* interceptors, refreshTokens, logout and the proactive refresh timer.    *)
(***************************************************************************)
EXTENDS Integers, Sequences, FiniteSets, TLC

VARIABLES
    now,            \* server clock, epoch milliseconds (new Date())
    ticks,          \* number of clock advances so far
    users,          \* users table: sequence of User rows, id = index
    vtokens,        \* verification_tokens table, token value = index
    resets,         \* password_resets table, token value = index
    sreq,           \* server requests in progress / answered
    accessToken,    \* localStorage 'accessToken' (NoItem when absent)
    refreshToken,   \* localStorage 'refreshToken'
    tokenExpiry,    \* localStorage 'tokenExpiry'
    refreshTimeoutId, \* AuthService.refreshTimeoutId: "null", "live", "stale"
    pendingTimers,  \* window timers set and neither fired nor cleared
    task,           \* client calls through this.api and timer callbacks
    issued,         \* token pairs the server has issued so far
    accessExpiredUpTo,  \* access tokens 1..n are past their expiry
    refreshExpiredUpTo, \* refresh tokens 1..n are past their expiry
    events,         \* window events dispatched by the last step
    settled,        \* the call whose promise the last step settled, if any
    discarded,      \* a refresh has failed since the last successful login
    jwts,           \* JSON web tokens signed by generateTokens so far
    socials,        \* social_accounts table: sequence of SocialAccount rows
    outbox,         \* verification emails handed to the EmailService
    deletedUsers    \* ids of the rows deleted from the users table

accountVars == <<jwts, socials, outbox, deletedUsers>>

serverVars == <<now, ticks, users, vtokens, resets, sreq, accountVars>>

storeVars == <<accessToken, refreshToken, tokenExpiry, refreshTimeoutId, pendingTimers>>

clientVars == <<storeVars, task, issued, accessExpiredUpTo, refreshExpiredUpTo,
                events, settled, discarded>>

vars == <<serverVars, clientVars>>

(***************************************************************************)
(* Bounds                                                                  *)
(***************************************************************************)
NumSReqs == 2
MaxTicks == 2
MaxResets == 2

SReqs == 1..NumSReqs

(***************************************************************************)
(* Values                                                                  *)
(***************************************************************************)
None == [none |-> TRUE]

Emails == {"alice@x.com", "nobody@x.com"}
PlainPasswords == {"Abc12345!", "Xyz98765?"}

\* a password value: the text it derives from and how often bcrypt ran on it
Plain(p) == [base |-> p, rounds |-> 0]

\* User.hashPassword (BeforeInsert/BeforeUpdate): hashes whatever the
\* password property holds, when it holds something
HashPasswordOnce(pw) == [base |-> pw.base, rounds |-> pw.rounds + 1]
HashPassword(pw) == HashPasswordOnce(pw)

\* User.comparePassword: bcrypt.compare(candidate, this.password)
ComparePassword(candidate, stored) == stored = HashPasswordOnce(Plain(candidate))

VerificationLifetimeMs == 24 * 60 * 60 * 1000
ResetLifetimeMs == 60 * 60 * 1000

TickSteps == {1, ResetLifetimeMs, VerificationLifetimeMs}

\* VerificationToken.isExpired: new Date() > this.expiresAt
IsExpiredAtBoundary(tok, t) == t >= tok.expiresAt
IsExpired(tok, t) == t > tok.expiresAt

\* VerificationToken.isValid: !this.isUsed && !this.isExpired()
IsValidStrictExpiry(tok, t) == ~tok.isUsed /\ t < tok.expiresAt
IsValid(tok, t) == ~tok.isUsed /\ ~IsExpired(tok, t)

\* PasswordReset.isValid (entity not in the source tree): valid iff
\* !isUsed && now <= expiresAt
ResetIsValid(tok, t) == ~tok.isUsed /\ t <= tok.expiresAt

Resp(status, message) == [status |-> status, message |-> message]
NoResp == Resp(0, "")

IdleReq == [op |-> "none", pc |-> "idle", token |-> 0, email |-> "",
            password |-> "", snap |-> None, resp |-> NoResp]

\* request slots are interchangeable: they are taken in order
CanStart(r) ==
    /\ sreq[r].pc = "idle"
    /\ \A q \in SReqs : q < r => sreq[q].pc # "idle"

\* forgotPassword calls that found their user and have not inserted yet
PendingResetInserts ==
    Cardinality({q \in SReqs : sreq[q].op = "forgotPassword" /\ sreq[q].pc = "saveReset"})

FindUserByEmail(email) == {u \in DOMAIN users : users[u].email = email}

(***************************************************************************)
(* JSON web tokens (AuthService.generateTokens, jwt.verify)                *)
(***************************************************************************)
\* process.env.JWT_SECRET || 'your-secret-key'
JwtSecret == "your-secret-key"

\* process.env.JWT_REFRESH_SECRET || 'refresh-secret'
JwtRefreshSecretSameAsAccess == JwtSecret
JwtRefreshSecret == "refresh-secret"

\* AuthTokens.expiresIn as the server reports it
ExpiresInSeconds == 3600

\* expiresIn '1h' and '7d', in seconds
AccessLifetimeS == 60 * 60
RefreshLifetimeS == 7 * 24 * 60 * 60

\* jwt.sign sets exp to the issue time in whole seconds plus expiresIn
SignedAt(t, lifetime) == (t \div 1000) + lifetime

\* what a client can send that no jwt.sign of the server produced
Malformed == [malformed |-> TRUE]

\* AuthService.generateTokens(user) at server time t
GenerateTokens(u, t) ==
    [accessToken |-> [issuedAs |-> "access", secret |-> JwtSecret,
                      payload |-> [id |-> u, email |-> users[u].email,
                                   role |-> "student"],
                      exp |-> SignedAt(t, AccessLifetimeS)],
     refreshToken |-> [issuedAs |-> "refresh", secret |-> JwtRefreshSecret,
                       payload |-> [id |-> u],
                       exp |-> SignedAt(t, RefreshLifetimeS)],
     expiresIn |-> ExpiresInSeconds]

TokensOf(pair) == {pair.accessToken, pair.refreshToken}

\* jwt.verify(token, secret) at server time t: the signature is checked
\* before the expiry
JwtVerify(token, secret, t) ==
    IF token = Malformed THEN "JsonWebTokenError"
    ELSE IF token.secret # secret THEN "JsonWebTokenError"
    ELSE IF (t \div 1000) >= token.exp THEN "TokenExpiredError"
    ELSE "ok"

\* userRepository.findOne(id)
FindUserById(id) == id \in DOMAIN users /\ id \notin deletedUsers

\* a User entity as a query without addSelect('user.password') loads it:
\* the password column is select: false
LoadUserWithPassword(id) == users[id]
LoadUser(id) == [f \in DOMAIN users[id] \ {"password"} |-> users[id][f]]

\* User.toResponseObject: the entity without its password property
ToResponseObject(entity) == [f \in DOMAIN entity \ {"password"} |-> entity[f]]

(***************************************************************************)
(* Client: stored session (localStorage keys and the refresh timer)        *)
(***************************************************************************)
NumTasks == 2
MaxDepth == 2

Tasks == 1..NumTasks

\* token pairs the server may issue within a run
MaxGen == NumTasks + 2

\* localStorage.getItem(...) of an absent key
NoItem == 0

\* Date.now() of the client: the run is short against the token lifetime
DateNow == 0

CurStore == [accessToken |-> accessToken, refreshToken |-> refreshToken,
             tokenExpiry |-> tokenExpiry, refreshTimeoutId |-> refreshTimeoutId,
             pendingTimers |-> pendingTimers]

Commit(st) ==
    /\ accessToken' = st.accessToken
    /\ refreshToken' = st.refreshToken
    /\ tokenExpiry' = st.tokenExpiry
    /\ refreshTimeoutId' = st.refreshTimeoutId
    /\ pendingTimers' = st.pendingTimers

\* AuthService.setTokens: the pair g of the server, and its expiry
SetTokens(st, g) ==
    [st EXCEPT !.accessToken = g, !.refreshToken = g,
               !.tokenExpiry = DateNow + ExpiresInSeconds * 1000]

\* AuthService.clearTokenRefresh
ClearTokenRefresh(st) ==
    IF st.refreshTimeoutId # "null"
    THEN [st EXCEPT !.pendingTimers = IF st.refreshTimeoutId = "live" THEN @ - 1 ELSE @,
                    !.refreshTimeoutId = "null"]
    ELSE st

\* AuthService.setupTokenRefresh: clear the previous timer, set a new one
SetupTokenRefreshKeepingPrevious(st) ==
    [st EXCEPT !.refreshTimeoutId = "live", !.pendingTimers = @ + 1]
SetupTokenRefresh(st) ==
    LET c == ClearTokenRefresh(st) IN
    [c EXCEPT !.refreshTimeoutId = "live", !.pendingTimers = @ + 1]

\* AuthService.clearTokens
ClearTokensKeepRefreshToken(st) ==
    ClearTokenRefresh([st EXCEPT !.accessToken = NoItem, !.tokenExpiry = NoItem])
ClearTokens(st) ==
    ClearTokenRefresh([st EXCEPT !.accessToken = NoItem, !.refreshToken = NoItem,
                                 !.tokenExpiry = NoItem])

IdleTask == [kind |-> "none", pc |-> "idle", hdr |-> NoItem, retry |-> FALSE,
             chain |-> << >>, chainRetry |-> FALSE, status |-> 0, rstatus |-> 0,
             replays |-> 0]

NoSettle == [task |-> 0, kind |-> "none", outcome |-> "none", hdr |-> NoItem,
             status |-> 0, rstatus |-> 0, replays |-> 0]

\* what the caller of task t sees when its promise settles
Settlement(t, tk, outcome) ==
    [task |-> t, kind |-> tk.kind, outcome |-> outcome, hdr |-> tk.hdr,
     status |-> tk.status, rstatus |-> tk.rstatus, replays |-> tk.replays]

\* a settled call keeps no request state
Finished(tk, outcome) ==
    [IdleTask EXCEPT !.kind = tk.kind, !.pc = outcome, !.replays = tk.replays]

\* no stored session, nothing in flight
ClientAnonymous ==
    /\ accessToken = NoItem
    /\ refreshToken = NoItem
    /\ tokenExpiry = NoItem
    /\ refreshTimeoutId = "null"
    /\ pendingTimers = 0
    /\ task = [t \in Tasks |-> IdleTask]
    /\ issued = 0
    /\ accessExpiredUpTo = 0
    /\ refreshExpiredUpTo = 0
    /\ events = {}
    /\ settled = NoSettle
    /\ discarded = FALSE

(***************************************************************************)
(* Init: a database holding one registered, not yet verified identity, the *)
(* verification token issued to it by register at time 0 and a password    *)
(* reset token issued to it by forgotPassword at time 0.                   *)
(***************************************************************************)
ServerInit ==
    /\ now = 0
    /\ ticks = 0
    /\ users = << [email |-> "alice@x.com", username |-> "alice",
                   password |-> HashPasswordOnce(Plain("Abc12345!")),
                   isVerified |-> FALSE, isActive |-> TRUE, isLocked |-> FALSE] >>
    /\ vtokens = << [userId |-> 1, createdAt |-> 0,
                     expiresAt |-> VerificationLifetimeMs,
                     isUsed |-> FALSE] >>
    /\ resets = << [userId |-> 1, expiresAt |-> ResetLifetimeMs,
                    isUsed |-> FALSE] >>
    /\ sreq = [r \in SReqs |-> IdleReq]
    /\ jwts = TokensOf(GenerateTokens(1, 0))
    /\ socials = << >>
    /\ outbox = 1
    /\ deletedUsers = {}

Init == ServerInit /\ ClientAnonymous

\* the server clock advances
Tick ==
    /\ ticks < MaxTicks
    /\ \E d \in TickSteps : now' = now + d
    /\ ticks' = ticks + 1
    /\ UNCHANGED <<users, vtokens, resets, sreq, clientVars, accountVars>>

(***************************************************************************)
(* POST /auth/verify-email                                                 *)
(***************************************************************************)
\* AuthService.verifyEmail up to the first save: findOne by token value,
\* then the isValid check on the row just read
VerifyEmailFind(r) ==
    /\ CanStart(r)
    /\ \E tok \in 1..(Len(vtokens) + 1) :
        LET base == [sreq[r] EXCEPT !.op = "verifyEmail", !.token = tok] IN
        IF tok \notin DOMAIN vtokens
        THEN sreq' = [sreq EXCEPT ![r] = [base EXCEPT !.pc = "done",
                        !.resp = Resp(400, "Invalid verification token")]]
        ELSE IF ~IsValid(vtokens[tok], now)
        THEN sreq' = [sreq EXCEPT ![r] = [base EXCEPT !.pc = "done",
                        !.snap = vtokens[tok],
                        !.resp = Resp(400, "Verification token has expired")]]
        ELSE sreq' = [sreq EXCEPT ![r] = [base EXCEPT !.pc = "saveUser",
                        !.snap = vtokens[tok]]]
    /\ UNCHANGED <<now, ticks, users, vtokens, resets, clientVars, accountVars>>

\* user.isVerified = true; await userRepository.save(user)
VerifyEmailSaveUser(r) ==
    /\ sreq[r].op = "verifyEmail"
    /\ sreq[r].pc = "saveUser"
    /\ users' = [users EXCEPT ![sreq[r].snap.userId].isVerified = TRUE]
    /\ sreq' = [sreq EXCEPT ![r].pc = "saveToken"]
    /\ UNCHANGED <<now, ticks, vtokens, resets, clientVars, accountVars>>

\* verificationToken.isUsed = true; await tokenRepository.save(...); return
VerifyEmailSaveToken(r) ==
    /\ sreq[r].op = "verifyEmail"
    /\ sreq[r].pc = "saveToken"
    /\ vtokens' = [vtokens EXCEPT ![sreq[r].token].isUsed = TRUE]
    /\ sreq' = [sreq EXCEPT ![r].pc = "done",
                            ![r].resp = Resp(200, "Email verified successfully")]
    /\ UNCHANGED <<now, ticks, users, resets, clientVars, accountVars>>

(***************************************************************************)
(* POST /auth/forgot-password                                              *)
(***************************************************************************)
GenericForgotMessage == "If your email exists, you will receive a password reset link"

\* AuthService.forgotPassword up to the first save: findOne by email; an
\* unknown email returns the generic message at once
ForgotPasswordFind(r) ==
    /\ sreq[r].pc = "idle"
    /\ CanStart(r)
    /\ Len(resets) + PendingResetInserts < MaxResets
    /\ \E email \in Emails :
        LET base == [sreq[r] EXCEPT !.op = "forgotPassword", !.email = email]
            found == FindUserByEmail(email) IN
        IF found = {}
        THEN sreq' = [sreq EXCEPT ![r] = [base EXCEPT !.pc = "done",
                        !.resp = Resp(200, GenericForgotMessage)]]
        ELSE sreq' = [sreq EXCEPT ![r] = [base EXCEPT !.pc = "saveReset",
                        !.snap = [userId |-> CHOOSE u \in found : TRUE]]]
    /\ UNCHANGED <<now, ticks, users, vtokens, resets, clientVars, accountVars>>

\* resetRepository.create({user}); await resetRepository.save(passwordReset)
\* PasswordReset's BeforeInsert (entity not in the source tree) sets the
\* expiry one hour ahead
ForgotPasswordSaveReset(r) ==
    /\ sreq[r].op = "forgotPassword"
    /\ sreq[r].pc = "saveReset"
    /\ resets' = Append(resets, [userId |-> sreq[r].snap.userId,
                                 expiresAt |-> now + ResetLifetimeMs,
                                 isUsed |-> FALSE])
    /\ sreq' = [sreq EXCEPT ![r].pc = "sendEmail", ![r].token = Len(resets) + 1]
    /\ UNCHANGED <<now, ticks, users, vtokens, clientVars, accountVars>>

\* the message AuthService.forgotPassword returns for a known email
ForgotSentMessage == "Password reset instructions sent to your email"

\* await emailService.sendPasswordResetEmail(...); return.  The transport
\* may throw: AuthController.forgotPassword then answers from its catch
ForgotPasswordSendEmail(r) ==
    /\ sreq[r].op = "forgotPassword"
    /\ sreq[r].pc = "sendEmail"
    /\ \E sent \in BOOLEAN :
        sreq' = [sreq EXCEPT ![r].pc = "done",
                    ![r].resp = IF sent THEN Resp(200, ForgotSentMessage)
                                ELSE Resp(200, GenericForgotMessage)]
    /\ UNCHANGED <<now, ticks, users, vtokens, resets, clientVars, accountVars>>

(***************************************************************************)
(* POST /auth/reset-password                                               *)
(***************************************************************************)
ResetExpiredMessage == "Password reset token has expired"

\* AuthController.resetPassword validation, then AuthService.resetPassword
\* up to the first save: password match, findOne by token value, isValid
ResetPasswordFind(r) ==
    /\ CanStart(r)
    /\ \E tok \in 1..(MaxResets + 1), pw \in PlainPasswords, confirm \in PlainPasswords :
        LET base == [sreq[r] EXCEPT !.op = "resetPassword", !.token = tok,
                                    !.password = pw] IN
        IF confirm # pw
        THEN sreq' = [sreq EXCEPT ![r] = [base EXCEPT !.pc = "done",
                        !.resp = Resp(400, "validation errors")]]
        ELSE IF tok \notin DOMAIN resets
        THEN sreq' = [sreq EXCEPT ![r] = [base EXCEPT !.pc = "done",
                        !.resp = Resp(400, "Invalid password reset token")]]
        ELSE IF ~ResetIsValid(resets[tok], now)
        THEN sreq' = [sreq EXCEPT ![r] = [base EXCEPT !.pc = "done",
                        !.snap = resets[tok],
                        !.resp = Resp(400, ResetExpiredMessage)]]
        ELSE sreq' = [sreq EXCEPT ![r] = [base EXCEPT !.pc = "saveUser",
                        !.snap = resets[tok]]]
    /\ UNCHANGED <<now, ticks, users, vtokens, resets, clientVars, accountVars>>

\* user.password = dto.password; await userRepository.save(user)
\* (the BeforeUpdate hook hashes the assigned password)
ResetPasswordSaveUser(r) ==
    /\ sreq[r].op = "resetPassword"
    /\ sreq[r].pc = "saveUser"
    /\ users' = [users EXCEPT ![sreq[r].snap.userId].password =
                                    HashPassword(Plain(sreq[r].password))]
    /\ sreq' = [sreq EXCEPT ![r].pc = "saveToken"]
    /\ UNCHANGED <<now, ticks, vtokens, resets, clientVars, accountVars>>

\* passwordReset.isUsed = true; await resetRepository.save(...); return
ResetPasswordSaveToken(r) ==
    /\ sreq[r].op = "resetPassword"
    /\ sreq[r].pc = "saveToken"
    /\ resets' = [resets EXCEPT ![sreq[r].token].isUsed = TRUE]
    /\ sreq' = [sreq EXCEPT ![r].pc = "done",
                            ![r].resp = Resp(200, "Password reset successful")]
    /\ UNCHANGED <<now, ticks, users, vtokens, clientVars, accountVars>>

Next ==
    \/ Tick
    \/ \E r \in SReqs : VerifyEmailFind(r)
    \/ \E r \in SReqs : VerifyEmailSaveUser(r)
    \/ \E r \in SReqs : VerifyEmailSaveToken(r)
    \/ \E r \in SReqs : ForgotPasswordFind(r)
    \/ \E r \in SReqs : ForgotPasswordSaveReset(r)
    \/ \E r \in SReqs : ForgotPasswordSendEmail(r)
    \/ \E r \in SReqs : ResetPasswordFind(r)
    \/ \E r \in SReqs : ResetPasswordSaveUser(r)
    \/ \E r \in SReqs : ResetPasswordSaveToken(r)

Spec == Init /\ [][Next]_vars

(***************************************************************************)
(* Properties of the server side                                           *)
(***************************************************************************)
HasToken(q) == "isUsed" \in DOMAIN q.snap

Answered(r, op) == sreq[r].op = op /\ sreq[r].pc = "done"

Succeeded(r, op) == Answered(r, op) /\ sreq[r].resp.status = 200

\* C1: of the consume calls (verifyEmail, resp. resetPassword) made with the
\* same token value, in any interleaving, at most one succeeds.
C1_OneConsumePerToken ==
    /\ \A tok \in DOMAIN vtokens :
         Cardinality({r \in SReqs : Succeeded(r, "verifyEmail") /\ sreq[r].token = tok}) <= 1
    /\ \A tok \in DOMAIN resets :
         Cardinality({r \in SReqs : Succeeded(r, "resetPassword") /\ sreq[r].token = tok}) <= 1

\* C8: verifyEmail goes on to consume a token exactly when
\* !isUsed && now <= expiresAt holds of it at the lookup; isUsed never goes
\* back from true to false; a lookup of a used token is answered 400 whatever
\* its expiry.
C8_ValidityAndPermanence ==
    [][ /\ \A r \in SReqs :
             (sreq[r].pc = "idle" /\ sreq'[r].op = "verifyEmail"
                /\ sreq'[r].token \in DOMAIN vtokens)
             => LET tok == vtokens[sreq'[r].token] IN
                /\ (sreq'[r].pc = "saveUser") <=> (~tok.isUsed /\ now <= tok.expiresAt)
                /\ tok.isUsed => (sreq'[r].pc = "done" /\ sreq'[r].resp.status = 400)
        /\ \A r \in SReqs :
             (sreq[r].op = "verifyEmail" /\ sreq[r].pc # "done" /\ Succeeded(r, "verifyEmail")')
             => sreq[r].pc = "saveToken"
        /\ \A t \in DOMAIN vtokens : vtokens[t].isUsed => vtokens'[t].isUsed
      ]_vars

\* C8 witness: a verifyEmail was refused on a consumed token that is not
\* past its expiry.
C8_Witness ==
    \E r \in SReqs :
        /\ Answered(r, "verifyEmail") /\ sreq[r].resp.status = 400
        /\ HasToken(sreq[r]) /\ sreq[r].snap.isUsed
        /\ now <= sreq[r].snap.expiresAt

\* C9: a resetPassword on a token that an earlier call consumed, and that is
\* not past its expiry, is answered 400 with an error of its own, distinct
\* from the one given for an expired token.
C9_UsedTokenErrorDistinct ==
    \A r \in SReqs :
        (Answered(r, "resetPassword") /\ HasToken(sreq[r]) /\ sreq[r].snap.isUsed
            /\ now <= sreq[r].snap.expiresAt)
        => (sreq[r].resp.status = 400 /\ sreq[r].resp.message # ResetExpiredMessage)

\* C10: any two answers of POST /auth/forgot-password carry the same status
\* and the same body, whether or not the email belongs to an identity.
C10_ForgotPasswordUniform ==
    \A r1, r2 \in SReqs :
        (Answered(r1, "forgotPassword") /\ Answered(r2, "forgotPassword"))
        => sreq[r1].resp = sreq[r2].resp



(***************************************************************************)
(* Client: the AuthService of src/services/authService.ts                  *)
(***************************************************************************)
\* the server accepts an access token that is present and not expired
AccessValid(h) == h # NoItem /\ h > accessExpiredUpTo

\* jwt.verify of a refresh token against the refresh secret
RefreshValid(rt) == rt > refreshExpiredUpTo

\* task slots are interchangeable: they are taken in order
CanStartTask(t) ==
    /\ task[t].pc = "idle"
    /\ \A q \in Tasks : q < t => task[q].pc # "idle"

\* the code after the awaited this.api call of login / logout:
\* login stores the pair and arms the timer, logout's finally clears both
AfterCall(kind, outcome, st) ==
    IF kind = "logout" THEN ClearTokenRefresh(ClearTokens(st))
    ELSE IF kind = "login" /\ outcome = "ok"
         THEN SetupTokenRefresh(SetTokens(st, issued + 1))
    ELSE st

\* the promise of the task's call settles with outcome
Settle(t, tk, outcome, st, ev, disc) ==
    /\ task' = [task EXCEPT ![t] = Finished(tk, outcome)]
    /\ settled' = Settlement(t, tk, outcome)
    /\ Commit(AfterCall(tk.kind, outcome, st))
    /\ issued' = IF tk.kind = "login" /\ outcome = "ok" THEN issued + 1 ELSE issued
    /\ discarded' = IF tk.kind = "login" /\ outcome = "ok" THEN FALSE ELSE disc
    /\ events' = ev

\* request interceptor, then the request leaves
SendWith(t, kind) ==
    /\ task' = [task EXCEPT ![t] = [IdleTask EXCEPT !.kind = kind, !.pc = "sent",
                                                    !.hdr = accessToken]]
    /\ events' = {}
    /\ settled' = NoSettle
    /\ UNCHANGED <<storeVars, issued, discarded>>

\* an authenticated API call through this.api (getCurrentUser, ...)
ApiSend(t) ==
    /\ CanStartTask(t)
    /\ SendWith(t, "api")
    /\ UNCHANGED <<serverVars, accessExpiredUpTo, refreshExpiredUpTo>>

\* AuthService.login: POST /auth/login
LoginSend(t) ==
    /\ CanStartTask(t)
    /\ SendWith(t, "login")
    /\ UNCHANGED <<serverVars, accessExpiredUpTo, refreshExpiredUpTo>>

\* AuthService.logout: POST /auth/logout only when isAuthenticated();
\* otherwise straight to the finally block
LogoutStart(t) ==
    /\ CanStartTask(t)
    /\ IF accessToken # NoItem
       THEN SendWith(t, "logout")
       ELSE Settle(t, [IdleTask EXCEPT !.kind = "logout"], "ok", CurStore, {}, discarded)
    /\ UNCHANGED <<serverVars, accessExpiredUpTo, refreshExpiredUpTo>>

\* what the server (or the network) may answer to the task's request
ServerAnswers(tk, s) ==
    IF tk.kind = "login"
    THEN \/ s = 200 /\ issued < MaxGen
         \/ s \in {401, 500}
    ELSE \/ s = 200 /\ AccessValid(tk.hdr)
         \/ s = 401 /\ ~AccessValid(tk.hdr)
         \/ s = 403 /\ AccessValid(tk.hdr)
         \/ s = 500

\* response interceptor's test for refresh-and-retry
ShouldRefreshIgnoreRetry(s, retried) == s = 401
ShouldRefresh(s, retried) == s = 401 /\ ~retried

\* response interceptor on the answer to the task's own request, the
\* answer being one of the statuses S
RespondIn(t, S) ==
    /\ task[t].pc = "sent"
    /\ \E s \in S :
        /\ ServerAnswers(task[t], s)
        /\ LET tk == [task[t] EXCEPT !.status = s] IN
           IF s = 200
           THEN Settle(t, tk, "ok", CurStore, {}, discarded)
           ELSE IF ShouldRefresh(s, tk.retry)
           THEN IF refreshToken # NoItem
                THEN /\ task' = [task EXCEPT ![t] = [tk EXCEPT !.retry = TRUE,
                                    !.pc = "refreshing", !.chain = <<refreshToken>>,
                                    !.chainRetry = FALSE, !.rstatus = 0]]
                     /\ events' = {}
                     /\ settled' = NoSettle
                     /\ UNCHANGED <<storeVars, issued, discarded>>
                ELSE Settle(t, tk, "rejected", ClearTokens(CurStore),
                            {"auth:unauthorized"}, discarded)
           ELSE Settle(t, tk, "rejected", CurStore,
                       IF s = 403 THEN {"auth:forbidden"} ELSE {}, discarded)
    /\ UNCHANGED <<serverVars, accessExpiredUpTo, refreshExpiredUpTo>>

\* any answer: 200, 401, 403, or a server / network failure (500)
Respond(t) == RespondIn(t, {200, 401, 403, 500})

\* AuthService.refreshTokens returned a new pair to the caller of the
\* outermost refresh: the interceptor replays the request, the timer is done
RefreshReturnedStaleHeader(t, tk, st) ==
    /\ IF tk.kind \in {"timer", "init"}
       THEN task' = [task EXCEPT ![t] = Finished(tk, "ok")]
       ELSE task' = [task EXCEPT ![t] = [tk EXCEPT !.pc = "sent", !.chain = << >>,
                            !.replays = @ + 1]]
    /\ settled' = IF tk.kind \in {"timer", "init"} THEN Settlement(t, tk, "ok")
                  ELSE NoSettle
    /\ Commit(st)
    /\ issued' = issued + 1
    /\ events' = {}
    /\ UNCHANGED discarded
RefreshReturned(t, tk, st) ==
    /\ IF tk.kind \in {"timer", "init"}
       THEN task' = [task EXCEPT ![t] = Finished(tk, "ok")]
       ELSE task' = [task EXCEPT ![t] = [tk EXCEPT !.pc = "sent", !.chain = << >>,
                            !.hdr = st.accessToken, !.replays = @ + 1]]
    /\ settled' = IF tk.kind \in {"timer", "init"} THEN Settlement(t, tk, "ok")
                  ELSE NoSettle
    /\ Commit(st)
    /\ issued' = issued + 1
    /\ events' = {}
    /\ UNCHANGED discarded

\* a refresh call failed: every refreshTokens on the stack clears the
\* tokens and rethrows, every interceptor on the way clears them and
\* dispatches auth:sessionExpired, and so does the caller; the catch of
\* initTokenRefresh only clears them
RefreshFailed(t, tk, ev) ==
    Settle(t, tk, "rejected", ClearTokens(CurStore),
           IF tk.kind = "init" /\ Len(tk.chain) = 1
           THEN ev ELSE ev \cup {"auth:sessionExpired"}, TRUE)

\* the answer to the innermost POST /auth/refresh-token of the task, which
\* passes the response interceptor like any other call of this.api.
\* AuthController.refreshToken answers 401 to an invalid token and to any
\* other failure of the service; 500 stands for a network failure
RefreshRespondIn(t, S) ==
    /\ task[t].pc = "refreshing"
    /\ \E s \in S :
        LET rt == task[t].chain[Len(task[t].chain)]
            tk == [task[t] EXCEPT !.rstatus = s] IN
        /\ s = 200 => (RefreshValid(rt) /\ issued < MaxGen)
        /\ s = 401 => (~RefreshValid(rt) \/ 500 \in S)
        /\ IF s = 200
           THEN LET st == SetupTokenRefresh(SetTokens(CurStore, issued + 1)) IN
                IF Len(tk.chain) > 1
                THEN /\ task' = [task EXCEPT ![t] = [tk EXCEPT
                                    !.chain = SubSeq(tk.chain, 1, Len(tk.chain) - 1),
                                    !.chainRetry = TRUE]]
                     /\ Commit(st)
                     /\ issued' = issued + 1
                     /\ events' = {}
                     /\ settled' = NoSettle
                     /\ UNCHANGED discarded
                ELSE RefreshReturned(t, tk, st)
           ELSE IF ShouldRefresh(s, tk.chainRetry)
           THEN IF refreshToken # NoItem
                THEN /\ Len(tk.chain) < MaxDepth
                     /\ task' = [task EXCEPT ![t] = [tk EXCEPT
                                    !.chain = Append(tk.chain, refreshToken),
                                    !.chainRetry = FALSE]]
                     /\ events' = {}
                     /\ settled' = NoSettle
                     /\ UNCHANGED <<storeVars, issued, discarded>>
                ELSE RefreshFailed(t, tk, {"auth:unauthorized"})
           ELSE RefreshFailed(t, tk, {})
    /\ UNCHANGED <<serverVars, accessExpiredUpTo, refreshExpiredUpTo>>

RefreshRespond(t) == RefreshRespondIn(t, {200, 401, 500})

\* the callback of setupTokenRefresh's timer
TimerFire(t) ==
    /\ CanStartTask(t)
    /\ pendingTimers > 0
    /\ \E live \in BOOLEAN :
        /\ live => refreshTimeoutId = "live"
        /\ ~live => pendingTimers > (IF refreshTimeoutId = "live" THEN 1 ELSE 0)
        /\ refreshTimeoutId' = IF live THEN "stale" ELSE refreshTimeoutId
    /\ pendingTimers' = pendingTimers - 1
    /\ IF refreshToken # NoItem
       THEN task' = [task EXCEPT ![t] = [IdleTask EXCEPT !.kind = "timer",
                            !.pc = "refreshing", !.chain = <<refreshToken>>]]
       ELSE task' = [task EXCEPT ![t] = [IdleTask EXCEPT !.kind = "timer", !.pc = "ok"]]
    /\ events' = {}
    /\ settled' = NoSettle
    /\ UNCHANGED <<accessToken, refreshToken, tokenExpiry, issued, discarded>>
    /\ UNCHANGED <<serverVars, accessExpiredUpTo, refreshExpiredUpTo>>

\* time passes: the oldest unexpired access token reaches its expiry
ExpireAccess ==
    /\ accessExpiredUpTo < issued
    /\ accessExpiredUpTo' = accessExpiredUpTo + 1
    /\ events' = {}
    /\ settled' = NoSettle
    /\ UNCHANGED <<serverVars, storeVars, task, issued, refreshExpiredUpTo, discarded>>

\* refresh tokens live longer than the access token issued with them
ExpireRefresh ==
    /\ refreshExpiredUpTo < accessExpiredUpTo
    /\ refreshExpiredUpTo' = refreshExpiredUpTo + 1
    /\ events' = {}
    /\ settled' = NoSettle
    /\ UNCHANGED <<serverVars, storeVars, task, issued, accessExpiredUpTo, discarded>>

\* a session restored from localStorage by the constructor, its expiry
\* still ahead: initTokenRefresh arms the timer
ClientRestored ==
    /\ accessToken = 1
    /\ refreshToken = 1
    /\ tokenExpiry = DateNow + ExpiresInSeconds * 1000
    /\ refreshTimeoutId = "live"
    /\ pendingTimers = 1
    /\ task = [t \in Tasks |-> IdleTask]
    /\ issued = 1
    /\ accessExpiredUpTo = 0
    /\ refreshExpiredUpTo = 0
    /\ events = {}
    /\ settled = NoSettle
    /\ discarded = FALSE

InitClient == ServerInit /\ (ClientAnonymous \/ ClientRestored)

NextClient ==
    \/ \E t \in Tasks : ApiSend(t)
    \/ \E t \in Tasks : LoginSend(t)
    \/ \E t \in Tasks : LogoutStart(t)
    \/ \E t \in Tasks : Respond(t)
    \/ \E t \in Tasks : RefreshRespond(t)
    \/ \E t \in Tasks : TimerFire(t)
    \/ ExpireAccess
    \/ ExpireRefresh

SpecClient == InitClient /\ [][NextClient]_vars

(***************************************************************************)
(* Refresh coalescing scenario: a stored session whose access token        *)
(* expires while requests are being issued and whose refresh token the     *)
(* server accepts; the server and the network answer every call, and       *)
(* answer by the token alone.                                              *)
(***************************************************************************)
InitCoalesce ==
    /\ ServerInit
    /\ accessToken = 1
    /\ refreshToken = 1
    /\ tokenExpiry = DateNow + ExpiresInSeconds * 1000
    /\ refreshTimeoutId = "live"
    /\ pendingTimers = 1
    /\ task = [t \in Tasks |-> IdleTask]
    /\ issued = 1
    /\ accessExpiredUpTo = 0
    /\ refreshExpiredUpTo = 0
    /\ events = {}
    /\ settled = NoSettle
    /\ discarded = FALSE

\* the access token of the stored session reaches its expiry
ExpireStoredAccess ==
    /\ accessExpiredUpTo = 0
    /\ ExpireAccess

RespondByToken(t) == RespondIn(t, {200, 401})

RefreshRespondByToken(t) == RefreshRespondIn(t, {200, 401})

NextCoalesce ==
    \/ \E t \in Tasks : ApiSend(t)
    \/ \E t \in Tasks : RespondByToken(t)
    \/ \E t \in Tasks : RefreshRespondByToken(t)
    \/ \E t \in Tasks : TimerFire(t)
    \/ ExpireStoredAccess

SpecCoalesce ==
    /\ InitCoalesce
    /\ [][NextCoalesce]_vars
    /\ \A t \in Tasks : WF_vars(RespondByToken(t))
    /\ \A t \in Tasks : WF_vars(RefreshRespondByToken(t))

(***************************************************************************)
(* Properties of the client side                                           *)
(***************************************************************************)
Refreshing == {t \in Tasks : task[t].pc = "refreshing"}

StoreCleared(a, r, e) == a = NoItem /\ r = NoItem /\ e = NoItem

\* the step answers a call (its own request or its refresh call) of task t
Answers(t) == task[t].pc \in {"sent", "refreshing"} /\ task'[t] # task[t]

\* the status that answer carried, for the request and for the refresh call
StatusNow(t) == IF settled'.task = t THEN settled'.status ELSE task'[t].status
RStatusNow(t) == IF settled'.task = t THEN settled'.rstatus ELSE task'[t].rstatus

\* C2: at most one call to the refresh endpoint is in flight at any time.
C2_SingleRefreshInFlight == Cardinality(Refreshing) <= 1

\* C3: when a refresh made on behalf of a 401 response fails (any answer
\* but 200), the same step clears the stored session, dispatches
\* auth:sessionExpired and rejects the original request; no further refresh
\* is attempted.
C3_FailedRefreshTerminates ==
    [][ \A t \in Tasks :
            (task[t].pc = "refreshing" /\ task[t].kind # "timer"
                /\ Answers(t) /\ RStatusNow(t) # 200)
            => /\ task'[t].pc = "rejected"
               /\ StoreCleared(accessToken', refreshToken', tokenExpiry')
               /\ "auth:sessionExpired" \in events'
      ]_vars

\* C4: every request that received 401 for the expired access token is
\* eventually replayed with a newly issued access token and succeeds.
C4_AllReplayedSucceed ==
    \A t \in Tasks :
        (task[t].kind = "api" /\ task[t].pc = "refreshing")
        ~> (settled.task = t /\ settled.outcome = "ok" /\ settled.replays = 1
                /\ settled.hdr > 1)

\* C4 witness: every request was issued with the expired token, got 401,
\* and has succeeded on its replay.
C4_Witness ==
    /\ \A t \in Tasks :
        task[t].kind = "api" /\ task[t].pc = "ok" /\ task[t].replays = 1
    /\ settled.outcome = "ok" /\ settled.hdr > 1

\* C5: a request is replayed at most once, and only when it had received
\* 401 and the refresh that followed answered 200; a replay that receives
\* 401 is rejected without a refresh; an answer other than 401 settles the
\* request without refresh or replay.  The same holds of the refresh calls.
C5_ReplayAtMostOnce ==
    [][ \A t \in Tasks :
          /\ task'[t].replays <= 1
          /\ task'[t].replays > task[t].replays
             => /\ task[t].pc = "refreshing" /\ task[t].status = 401
                /\ task'[t].rstatus = 200 /\ task'[t].pc = "sent"
          /\ (task[t].pc = "sent" /\ task[t].retry /\ Answers(t) /\ StatusNow(t) = 401)
             => task'[t].pc = "rejected"
          /\ (task[t].pc = "sent" /\ Answers(t) /\ StatusNow(t) # 401)
             => task'[t].pc \in {"ok", "rejected"}
          /\ (task[t].pc = "refreshing" /\ task[t].chainRetry /\ Answers(t)
                /\ RStatusNow(t) = 401)
             => task'[t].pc = "rejected"
          /\ (task[t].pc = "refreshing" /\ task'[t].pc = "refreshing"
                /\ Len(task'[t].chain) < Len(task[t].chain))
             => (task'[t].rstatus = 200 /\ task'[t].chainRetry)
      ]_vars

\* C5 witness: a replay received 401 and was rejected.
C5_Witness ==
    /\ settled.outcome = "rejected" /\ settled.replays = 1
    /\ settled.status = 401 /\ settled.rstatus = 200

\* C6: once a refresh has failed, every request sent (first attempt or
\* replay) carries no Authorization header, until a login succeeds.
C6_NoTokenAfterFailedRefresh ==
    [][ \A t \in Tasks :
            (discarded /\ task'[t].pc = "sent" /\ task'[t] # task[t])
            => task'[t].hdr = NoItem
      ]_vars

\* C7: the step that ends a logout leaves the three keys absent and no
\* timer armed, whatever became of the server notification.
C7_LogoutClears ==
    [][ \A t \in Tasks :
            (task'[t].kind = "logout" /\ task'[t].pc \in {"ok", "rejected"}
                /\ task[t].pc \notin {"ok", "rejected"})
            => /\ StoreCleared(accessToken', refreshToken', tokenExpiry')
               /\ refreshTimeoutId' = "null"
               /\ pendingTimers' = 0
      ]_vars

\* C7 witness: a logout whose server notification failed has ended and the
\* session is cleared.
C7_Witness ==
    /\ settled.kind = "logout" /\ settled.outcome = "rejected"
    /\ settled.status = 500 /\ settled.hdr # NoItem
    /\ StoreCleared(accessToken, refreshToken, tokenExpiry)
    /\ refreshTimeoutId = "null"

(***************************************************************************)
(* Accounts (SpecAccounts): register, login, resendVerification and        *)
(* verifyEmail of the AuthService behind the AuthController, on the        *)
(* database of ServerInit.                                                 *)
(***************************************************************************)
MaxUsers == 3
MaxVTokens == 3

Usernames == {"alice", "bob"}

\* process.env.REQUIRE_EMAIL_VERIFICATION === 'true'
RequireEmailVerification == TRUE

FindUserByUsername(name) == {u \in DOMAIN users : users[u].username = name}

\* userRepository.findOne({ email }) of register found a row
EmailTakenNever(email) == FALSE
EmailTaken(email) == FindUserByEmail(email) # {}

\* the unique columns of the users table reject the insert
UniqueViolation(email, username) ==
    FindUserByEmail(email) # {} \/ FindUserByUsername(username) # {}

\* register and resend calls that will insert a verification token
PendingVTokenInserts ==
    Cardinality({q \in SReqs : sreq[q].op \in {"register", "resendVerification"}
                               /\ sreq[q].pc \in {"findUsername", "saveUser", "saveToken"}})

PendingUserInserts ==
    Cardinality({q \in SReqs : sreq[q].op = "register"
                               /\ sreq[q].pc \in {"findUsername", "saveUser"}})

\* the response has been sent: the request is over
Release(r) ==
    /\ sreq[r].pc = "done"
    /\ sreq' = [sreq EXCEPT ![r] = IdleReq]
    /\ UNCHANGED <<now, ticks, users, vtokens, resets, clientVars, accountVars>>

(***************************************************************************)
(* POST /auth/register                                                     *)
(***************************************************************************)
\* the local variables of a register call; writes counts its saves and
\* emails, taken tells whether the email or the username was in the table
\* when the call arrived
RegisterLocals(email, username) ==
    [username |-> username, userId |-> 0, token |-> 0, writes |-> 0,
     taken |-> UniqueViolation(email, username)]

\* AuthService.register: findOne({ email })
RegisterFindEmail(r) ==
    /\ CanStart(r)
    /\ Len(users) + PendingUserInserts < MaxUsers
    /\ Len(vtokens) + PendingVTokenInserts < MaxVTokens
    /\ \E email \in Emails, username \in Usernames :
        LET base == [sreq[r] EXCEPT !.op = "register", !.email = email,
                                    !.password = "Abc12345!",
                                    !.snap = RegisterLocals(email, username)] IN
        IF EmailTaken(email)
        THEN sreq' = [sreq EXCEPT ![r] = [base EXCEPT !.pc = "done",
                        !.resp = Resp(400, "Email already exists")]]
        ELSE sreq' = [sreq EXCEPT ![r] = [base EXCEPT !.pc = "findUsername"]]
    /\ UNCHANGED <<now, ticks, users, vtokens, resets, clientVars, accountVars>>

\* findOne({ username })
RegisterFindUsername(r) ==
    /\ sreq[r].op = "register"
    /\ sreq[r].pc = "findUsername"
    /\ IF FindUserByUsername(sreq[r].snap.username) # {}
       THEN sreq' = [sreq EXCEPT ![r].pc = "done",
                        ![r].resp = Resp(400, "Username already exists")]
       ELSE sreq' = [sreq EXCEPT ![r].pc = "saveUser"]
    /\ UNCHANGED <<now, ticks, users, vtokens, resets, clientVars, accountVars>>

\* userRepository.create({...}); await userRepository.save(user): the
\* insert hashes the password and is rejected by a unique column
RegisterSaveUser(r) ==
    /\ sreq[r].op = "register"
    /\ sreq[r].pc = "saveUser"
    /\ IF UniqueViolation(sreq[r].email, sreq[r].snap.username)
       THEN /\ sreq' = [sreq EXCEPT ![r].pc = "done",
                        ![r].resp = Resp(400, "duplicate key value violates unique constraint")]
            /\ users' = users
       ELSE /\ users' = Append(users,
                    [email |-> sreq[r].email, username |-> sreq[r].snap.username,
                     password |-> HashPassword(Plain(sreq[r].password)),
                     isVerified |-> FALSE, isActive |-> TRUE, isLocked |-> FALSE])
            /\ sreq' = [sreq EXCEPT ![r].pc = "saveToken",
                                    ![r].snap.userId = Len(users) + 1,
                                    ![r].snap.writes = @ + 1]
    /\ UNCHANGED <<now, ticks, vtokens, resets, clientVars, accountVars>>

\* tokenRepository.create({ user }); await tokenRepository.save(...)
RegisterSaveToken(r) ==
    /\ sreq[r].op = "register"
    /\ sreq[r].pc = "saveToken"
    /\ vtokens' = Append(vtokens, [userId |-> sreq[r].snap.userId,
                                   createdAt |-> now,
                                   expiresAt |-> now + VerificationLifetimeMs,
                                   isUsed |-> FALSE])
    /\ sreq' = [sreq EXCEPT ![r].pc = "sendEmail",
                            ![r].snap.token = Len(vtokens) + 1,
                            ![r].snap.writes = @ + 1]
    /\ UNCHANGED <<now, ticks, users, resets, clientVars, accountVars>>

\* await emailService.sendVerificationEmail(...); generateTokens; 201.
\* The transport may throw: AuthController.register then answers 400
RegisterSendEmail(r) ==
    /\ sreq[r].op = "register"
    /\ sreq[r].pc = "sendEmail"
    /\ \E sent \in BOOLEAN :
        IF sent
        THEN LET pair == GenerateTokens(sreq[r].snap.userId, now) IN
             /\ outbox' = outbox + 1
             /\ jwts' = jwts \cup TokensOf(pair)
             /\ sreq' = [sreq EXCEPT ![r].pc = "done",
                            ![r].snap.writes = @ + 1,
                            ![r].resp = [status |-> 201,
                                         message |-> "User registered successfully",
                                         user |-> ToResponseObject(users[sreq[r].snap.userId]),
                                         tokens |-> pair]]
        ELSE /\ sreq' = [sreq EXCEPT ![r].pc = "done",
                            ![r].resp = Resp(400, "Registration failed")]
             /\ UNCHANGED <<outbox, jwts>>
    /\ UNCHANGED <<now, ticks, users, vtokens, resets, clientVars, socials, deletedUsers>>

(***************************************************************************)
(* POST /auth/login                                                        *)
(***************************************************************************)
InvalidCredentials == "Invalid credentials"

\* what AuthService.login throws for the row it loaded, "" when it goes on
LoginError(found, password) ==
    IF found = {} THEN InvalidCredentials
    ELSE LET user == users[CHOOSE u \in found : TRUE] IN
         IF user.isLocked
         THEN "Your account has been locked. Please contact support."
         ELSE IF ~user.isActive
         THEN "Your account is inactive. Please contact support."
         ELSE IF RequireEmailVerification /\ ~user.isVerified
         THEN "Please verify your email before logging in"
         ELSE IF ~ComparePassword(password, user.password)
         THEN InvalidCredentials
         ELSE ""

\* AuthController.login's catch: whatever was thrown
LoginFailureByMessage(error) ==
    IF error = InvalidCredentials THEN Resp(401, InvalidCredentials)
    ELSE Resp(403, error)
LoginFailure(error) == Resp(401, InvalidCredentials)

\* AuthService.login up to its save: the query by email with the password
\* column, the flag checks, comparePassword
LoginFind(r) ==
    /\ CanStart(r)
    /\ \E email \in Emails, password \in PlainPasswords :
        LET found == FindUserByEmail(email)
            error == LoginError(found, password)
            base == [sreq[r] EXCEPT !.op = "login", !.email = email,
                                    !.password = password] IN
        IF error # ""
        THEN sreq' = [sreq EXCEPT ![r] = [base EXCEPT !.pc = "done",
                        !.snap = [error |-> error, found |-> found # {},
                                  isVerified |-> found # {} /\ users[CHOOSE u \in found : TRUE].isVerified,
                                  matches |-> found # {} /\ ComparePassword(password, users[CHOOSE u \in found : TRUE].password)],
                        !.resp = LoginFailure(error)]]
        ELSE LET u == CHOOSE u \in found : TRUE IN
             sreq' = [sreq EXCEPT ![r] = [base EXCEPT !.pc = "save",
                        !.snap = [error |-> "", found |-> TRUE, isVerified |-> users[u].isVerified,
                                  matches |-> TRUE,
                                  userId |-> u, password |-> users[u].password]]]
    /\ UNCHANGED <<now, ticks, users, vtokens, resets, clientVars, accountVars>>

\* user.lastLogin = new Date(); await userRepository.save(user): the
\* BeforeUpdate hook hashes the password the query loaded; generateTokens
LoginSave(r) ==
    /\ sreq[r].op = "login"
    /\ sreq[r].pc = "save"
    /\ LET pair == GenerateTokens(sreq[r].snap.userId, now) IN
        /\ users' = [users EXCEPT ![sreq[r].snap.userId].password =
                                        HashPassword(sreq[r].snap.password)]
        /\ jwts' = jwts \cup TokensOf(pair)
        /\ sreq' = [sreq EXCEPT ![r].pc = "done",
                        ![r].resp = [status |-> 200, message |-> "Login successful",
                                     user |-> ToResponseObject(users'[sreq[r].snap.userId]),
                                     tokens |-> pair]]
    /\ UNCHANGED <<now, ticks, vtokens, resets, clientVars, socials, outbox, deletedUsers>>

(***************************************************************************)
(* POST /auth/resend-verification                                          *)
(***************************************************************************)
\* AuthService.resendVerificationEmail: findOne({ email }), isVerified
ResendFind(r) ==
    /\ CanStart(r)
    /\ Len(vtokens) + PendingVTokenInserts < MaxVTokens
    /\ \E email \in Emails :
        LET found == FindUserByEmail(email)
            base == [sreq[r] EXCEPT !.op = "resendVerification", !.email = email] IN
        IF found = {}
        THEN sreq' = [sreq EXCEPT ![r] = [base EXCEPT !.pc = "done",
                        !.snap = [error |-> "User not found"],
                        !.resp = Resp(400, "User not found")]]
        ELSE IF users[CHOOSE u \in found : TRUE].isVerified
        THEN sreq' = [sreq EXCEPT ![r] = [base EXCEPT !.pc = "done",
                        !.snap = [error |-> "Email is already verified"],
                        !.resp = Resp(400, "Email is already verified")]]
        ELSE sreq' = [sreq EXCEPT ![r] = [base EXCEPT !.pc = "saveToken",
                        !.snap = [error |-> "", userId |-> CHOOSE u \in found : TRUE]]]
    /\ UNCHANGED <<now, ticks, users, vtokens, resets, clientVars, accountVars>>

\* tokenRepository.create({ user }); await tokenRepository.save(...)
ResendSaveTokenInvalidatingOld(r) ==
    /\ sreq[r].op = "resendVerification"
    /\ sreq[r].pc = "saveToken"
    /\ vtokens' = Append([k \in DOMAIN vtokens |->
                            IF vtokens[k].userId = sreq[r].snap.userId
                            THEN [vtokens[k] EXCEPT !.isUsed = TRUE] ELSE vtokens[k]],
                         [userId |-> sreq[r].snap.userId,
                          createdAt |-> now,
                                   expiresAt |-> now + VerificationLifetimeMs,
                          isUsed |-> FALSE])
    /\ sreq' = [sreq EXCEPT ![r].pc = "sendEmail", ![r].token = Len(vtokens) + 1]
    /\ UNCHANGED <<now, ticks, users, resets, clientVars, accountVars>>
ResendSaveToken(r) ==
    /\ sreq[r].op = "resendVerification"
    /\ sreq[r].pc = "saveToken"
    /\ vtokens' = Append(vtokens, [userId |-> sreq[r].snap.userId,
                                   createdAt |-> now,
                                   expiresAt |-> now + VerificationLifetimeMs,
                                   isUsed |-> FALSE])
    /\ sreq' = [sreq EXCEPT ![r].pc = "sendEmail", ![r].token = Len(vtokens) + 1]
    /\ UNCHANGED <<now, ticks, users, resets, clientVars, accountVars>>

\* await emailService.sendVerificationEmail(...); return.  The transport
\* may throw: AuthController.resendVerification then answers 400
ResendSendEmail(r) ==
    /\ sreq[r].op = "resendVerification"
    /\ sreq[r].pc = "sendEmail"
    /\ \E sent \in BOOLEAN :
        IF sent
        THEN /\ outbox' = outbox + 1
             /\ sreq' = [sreq EXCEPT ![r].pc = "done",
                            ![r].resp = Resp(200, "Verification email sent")]
        ELSE /\ outbox' = outbox
             /\ sreq' = [sreq EXCEPT ![r].pc = "done",
                            ![r].snap.error = "transport",
                            ![r].resp = Resp(400, "Failed to resend verification email")]
    /\ UNCHANGED <<now, ticks, users, vtokens, resets, clientVars, jwts, socials, deletedUsers>>

NextAccounts ==
    \/ \E r \in SReqs : Release(r)
    \/ \E r \in SReqs : RegisterFindEmail(r)
    \/ \E r \in SReqs : RegisterFindUsername(r)
    \/ \E r \in SReqs : RegisterSaveUser(r)
    \/ \E r \in SReqs : RegisterSaveToken(r)
    \/ \E r \in SReqs : RegisterSendEmail(r)
    \/ \E r \in SReqs : LoginFind(r)
    \/ \E r \in SReqs : LoginSave(r)
    \/ \E r \in SReqs : ResendFind(r)
    \/ \E r \in SReqs : ResendSaveToken(r)
    \/ \E r \in SReqs : ResendSendEmail(r)
    \/ \E r \in SReqs : VerifyEmailFind(r)
    \/ \E r \in SReqs : VerifyEmailSaveUser(r)
    \/ \E r \in SReqs : VerifyEmailSaveToken(r)

SpecAccounts == Init /\ [][NextAccounts]_vars

(***************************************************************************)
(* Properties of the accounts                                              *)
(***************************************************************************)
\* C11: POST /auth/resend-verification answers 200 for every valid email,
\* be it unknown, of an unverified identity or of a verified identity
\* (a failure of the mail transport aside).
C11_ResendUniform ==
    \A r \in SReqs :
        Answered(r, "resendVerification") /\ sreq[r].snap.error # "transport"
            => sreq[r].resp.status = 200

\* C12: a login for an email no identity has and a login with a password
\* that does not match are answered by the same response, 401 with the
\* message 'Invalid credentials'.
C12_LoginFailuresIndistinguishable ==
    \A r \in SReqs :
        Answered(r, "login") /\ (~sreq[r].snap.found \/ ~sreq[r].snap.matches)
            => sreq[r].resp = Resp(401, InvalidCredentials)

C12_Witness ==
    \E r, q \in SReqs :
        /\ Answered(r, "login") /\ ~sreq[r].snap.found
        /\ Answered(q, "login") /\ sreq[q].snap.found /\ sreq[q].snap.isVerified
        /\ ~sreq[q].snap.matches
        /\ sreq[q].snap.error = InvalidCredentials
        /\ sreq[r].resp = sreq[q].resp

\* C13: with REQUIRE_EMAIL_VERIFICATION=true a login with the correct
\* password is answered 403 while the identity is unverified, and 200 with
\* a token pair of expiresIn 3600 once it is verified.
C13_LoginGatedByVerification ==
    \A r \in SReqs :
        Answered(r, "login") /\ sreq[r].snap.found /\ sreq[r].snap.matches
            => IF sreq[r].snap.isVerified
               THEN sreq[r].resp.status = 200
                    /\ sreq[r].resp.tokens.expiresIn = 3600
               ELSE sreq[r].resp.status = 403

DuplicateMessages == {"Email already exists", "Username already exists"}

\* C18: a register whose email or username is taken is answered 400 with
\* 'Email already exists' or 'Username already exists', and a register
\* refused for a duplicate has saved no identity, saved no verification
\* token and sent no email.
C18_DuplicateRegisterWritesNothing ==
    \A r \in SReqs :
        Answered(r, "register") =>
            /\ sreq[r].snap.taken =>
                  /\ sreq[r].resp.status = 400
                  /\ sreq[r].resp.message \in DuplicateMessages
            /\ sreq[r].resp.message \in DuplicateMessages
                    \cup {"duplicate key value violates unique constraint"} =>
                  /\ sreq[r].resp.status = 400
                  /\ sreq[r].snap.writes = 0

C18_Witness ==
    \E r \in SReqs :
        /\ Answered(r, "register")
        /\ sreq[r].snap.taken
        /\ sreq[r].resp = Resp(400, "Username already exists")
        /\ Len(users) = 1 /\ Len(vtokens) = 1 /\ outbox = 1

\* C19: no step changes a verification token other than the verifyEmail
\* that consumes it (so a resend leaves the earlier tokens as they were,
\* and consuming one token leaves the others), and verifyEmail goes on to
\* consume every unused, unexpired token it is called with.
C19_OldTokensStayValid ==
    [][ /\ \A tok \in DOMAIN vtokens :
            /\ tok \in DOMAIN vtokens'
            /\ vtokens'[tok] # vtokens[tok] =>
                 \E r \in SReqs :
                    /\ sreq[r].op = "verifyEmail" /\ sreq[r].pc = "saveToken"
                    /\ sreq[r].token = tok /\ sreq'[r].pc = "done"
                    /\ vtokens'[tok] = [vtokens[tok] EXCEPT !.isUsed = TRUE]
        /\ \A r \in SReqs :
            (/\ sreq[r].pc = "idle" /\ sreq'[r].op = "verifyEmail"
             /\ sreq'[r].token \in DOMAIN vtokens
             /\ IsValid(vtokens[sreq'[r].token], now))
                => sreq'[r].pc = "saveUser"
      ]_vars

C19_Witness ==
    /\ Len(vtokens) = 2
    /\ vtokens[1].userId = vtokens[2].userId
    /\ vtokens[1].isUsed /\ vtokens[2].isUsed
    /\ \E r, q \in SReqs :
        /\ Succeeded(r, "verifyEmail") /\ sreq[r].token = 1
        /\ Succeeded(q, "verifyEmail") /\ sreq[q].token = 2

(***************************************************************************)
(* Authorization gate and refresh (SpecGate): the authenticate middleware  *)
(* and AuthService.refreshTokens, on the tokens register has issued, while *)
(* the clock advances and the identity is locked, deactivated or deleted.  *)
(***************************************************************************)
\* the clock passes the lifetime of an access token, of a refresh token
GateTickSteps == {AccessLifetimeS * 1000, RefreshLifetimeS * 1000}

TickGate ==
    /\ ticks < MaxTicks
    /\ \E d \in GateTickSteps : now' = now + d
    /\ ticks' = ticks + 1
    /\ UNCHANGED <<users, vtokens, resets, sreq, clientVars, accountVars>>

\* the isLocked and isActive columns are set outside the AuthService
LockUser ==
    /\ \E u \in DOMAIN users :
        /\ ~users[u].isLocked
        /\ users' = [users EXCEPT ![u].isLocked = TRUE]
    /\ UNCHANGED <<now, ticks, vtokens, resets, sreq, clientVars, accountVars>>

DeactivateUser ==
    /\ \E u \in DOMAIN users :
        /\ users[u].isActive
        /\ users' = [users EXCEPT ![u].isActive = FALSE]
    /\ UNCHANGED <<now, ticks, vtokens, resets, sreq, clientVars, accountVars>>

\* DELETE /api/users/:id
DeleteUser ==
    /\ \E u \in DOMAIN users :
        /\ u \notin deletedUsers
        /\ deletedUsers' = deletedUsers \cup {u}
    /\ UNCHANGED <<now, ticks, users, vtokens, resets, sreq, clientVars,
                   jwts, socials, outbox>>

\* the Authorization headers a client may send
NoHeader == [scheme |-> "none"]
BasicHeader == [scheme |-> "Basic"]
Bearer(token) == [scheme |-> "Bearer", token |-> token]

Headers == {NoHeader, BasicHeader, Bearer(Malformed)} \cup {Bearer(tok) : tok \in jwts}

\* what authenticate does with the identity the token names: the response
\* it sends, or next() with the identity attached
GateOnIdentityTrustingToken(id) == [resp |-> Resp(200, "next"), user |-> id]
GateOnIdentity(id) ==
    IF ~FindUserById(id) THEN [resp |-> Resp(401, "User not found"), user |-> 0]
    ELSE IF ~users[id].isActive THEN [resp |-> Resp(403, "Account is inactive"), user |-> 0]
    ELSE IF users[id].isLocked THEN [resp |-> Resp(403, "Account is locked"), user |-> 0]
    ELSE [resp |-> Resp(200, "next"), user |-> id]

\* authenticate on the header h at server time t
Gate(h, t) ==
    IF h.scheme = "none"
    THEN [resp |-> Resp(401, "Authorization header missing"), user |-> 0]
    ELSE IF h.scheme # "Bearer"
    THEN [resp |-> Resp(401, "Invalid authorization format"), user |-> 0]
    ELSE LET verdict == JwtVerify(h.token, JwtSecret, t) IN
         IF verdict = "TokenExpiredError"
         THEN [resp |-> Resp(401, "Token expired"), user |-> 0]
         ELSE IF verdict = "JsonWebTokenError"
         THEN [resp |-> Resp(401, "Invalid token"), user |-> 0]
         ELSE GateOnIdentity(h.token.payload.id)

\* the authenticate middleware in front of a protected route
Authenticate(r) ==
    /\ CanStart(r)
    /\ \E h \in Headers :
        LET out == Gate(h, now) IN
        sreq' = [sreq EXCEPT ![r] = [IdleReq EXCEPT !.op = "authenticate",
                    !.pc = "done", !.snap = [header |-> h, user |-> out.user],
                    !.resp = out.resp]]
    /\ UNCHANGED <<now, ticks, users, vtokens, resets, clientVars, accountVars>>

InvalidRefreshToken == "Invalid refresh token"

\* what AuthService.refreshTokens throws inside its try block, "" when it
\* returns a pair
RefreshError(token, t) ==
    LET verdict == JwtVerify(token, JwtRefreshSecret, t) IN
    IF verdict # "ok" THEN verdict
    ELSE IF ~FindUserById(token.payload.id) THEN "User not found"
    ELSE ""

\* POST /auth/refresh-token: AuthService.refreshTokens behind
\* AuthController.refreshToken; every error becomes 'Invalid refresh token'
RefreshTokens(r) ==
    /\ CanStart(r)
    /\ \E token \in {Malformed} \cup jwts :
        LET error == RefreshError(token, now)
            base == [IdleReq EXCEPT !.op = "refreshTokens", !.pc = "done",
                                    !.snap = [token |-> token, error |-> error]] IN
        IF error # ""
        THEN /\ sreq' = [sreq EXCEPT ![r] = [base EXCEPT
                            !.resp = Resp(401, InvalidRefreshToken)]]
             /\ jwts' = jwts
        ELSE LET pair == GenerateTokens(token.payload.id, now) IN
             /\ jwts' = jwts \cup TokensOf(pair)
             /\ sreq' = [sreq EXCEPT ![r] = [base EXCEPT
                            !.resp = [status |-> 200, message |-> "",
                                      tokens |-> pair]]]
    /\ UNCHANGED <<now, ticks, users, vtokens, resets, clientVars,
                   socials, outbox, deletedUsers>>

NextGate ==
    \/ TickGate
    \/ LockUser
    \/ DeactivateUser
    \/ DeleteUser
    \/ \E r \in SReqs : Authenticate(r)
    \/ \E r \in SReqs : RefreshTokens(r)

SpecGate == Init /\ [][NextGate]_vars

(***************************************************************************)
(* Properties of the gate and of refresh                                   *)
(***************************************************************************)
\* the request of r passes the gate in this step
GateAnswers(r) == sreq[r].pc = "idle" /\ sreq'[r].op = "authenticate"

\* the header carries a token signed with the access secret and not past
\* its expiry
GoodAccessToken(h) ==
    /\ h.scheme = "Bearer"
    /\ h.token # Malformed
    /\ h.token.secret = JwtSecret
    /\ (now \div 1000) < h.token.exp

\* C14: authenticate attaches the identity and calls the handler exactly
\* when the bearer token verifies against the access secret, is unexpired
\* and names an identity that exists, is active and is not locked as the
\* request is handled; otherwise it attaches nothing and answers 403 when
\* the identity is locked or inactive and 401 in every other case.
C14_GateFailsClosed ==
    [][ \A r \in SReqs : GateAnswers(r) =>
          LET h == sreq'[r].snap.header
              id == h.token.payload.id
              out == sreq'[r] IN
          IF GoodAccessToken(h) /\ FindUserById(id)
          THEN IF users[id].isActive /\ ~users[id].isLocked
               THEN out.snap.user = id /\ out.resp = Resp(200, "next")
               ELSE out.snap.user = 0 /\ out.resp.status = 403
          ELSE out.snap.user = 0 /\ out.resp.status = 401
      ]_vars

C14_Witness ==
    \E r, q \in SReqs :
        /\ Answered(r, "authenticate") /\ sreq[r].snap.user = 1
        /\ Answered(q, "authenticate") /\ sreq[q].snap.header = sreq[r].snap.header
        /\ sreq[q].resp.status = 403 /\ sreq[q].snap.user = 0

\* C15: refresh never accepts a token issued as an access token, and
\* authenticate never accepts a token issued as a refresh token.
C15_TokensNotInterchangeable ==
    \A r \in SReqs :
        /\ (/\ Answered(r, "refreshTokens")
            /\ sreq[r].snap.token # Malformed
            /\ sreq[r].snap.token.issuedAs = "access")
                => sreq[r].resp.status = 401
        /\ (/\ Answered(r, "authenticate")
            /\ sreq[r].snap.header.scheme = "Bearer"
            /\ sreq[r].snap.header.token # Malformed
            /\ sreq[r].snap.header.token.issuedAs = "refresh")
                => sreq[r].resp.status = 401 /\ sreq[r].snap.user = 0

C15_Witness ==
    /\ now = 0
    /\ deletedUsers = {}
    /\ users[1].isActive /\ ~users[1].isLocked
    /\ \E r, q \in SReqs :
        /\ Answered(r, "refreshTokens") /\ sreq[r].snap.token # Malformed
        /\ sreq[r].snap.token.issuedAs = "access"
        /\ Answered(q, "authenticate") /\ sreq[q].snap.header.scheme = "Bearer"
        /\ sreq[q].snap.header.token # Malformed
        /\ sreq[q].snap.header.token.issuedAs = "refresh"

\* the error kind a refusal of refresh stands for
RefreshErrorKind(error) ==
    IF error = "JsonWebTokenError" THEN "InvalidToken"
    ELSE IF error = "TokenExpiredError" THEN "TokenExpired"
    ELSE "UserNotFound"

\* C20: refresh answers with a pair exactly for a token that verifies
\* against the refresh secret, is unexpired and names an existing identity,
\* and two refusals of different kinds (InvalidToken, TokenExpired,
\* UserNotFound) are answered differently.
C20_RefreshErrorsDistinct ==
    /\ \A r \in SReqs : Answered(r, "refreshTokens") =>
          (sreq[r].resp.status = 200 <=> sreq[r].snap.error = "")
    /\ \A r, q \in SReqs :
          (/\ Answered(r, "refreshTokens") /\ sreq[r].snap.error # ""
           /\ Answered(q, "refreshTokens") /\ sreq[q].snap.error # ""
           /\ RefreshErrorKind(sreq[r].snap.error) # RefreshErrorKind(sreq[q].snap.error))
              => sreq[r].resp # sreq[q].resp

(***************************************************************************)
(* Social sign-in (SpecSocial): AuthService.socialAuth behind              *)
(* AuthController.socialAuth, cut at its awaits.                           *)
(***************************************************************************)
Providers == {"google"}
ProviderIds == {"g-1", "g-2"}
SocialEmails == {"alice@x.com", "carol@x.com", "dave@x.com"}
ExternalTokens == {"ya29.a", "ya29.b"}

\* req.body.profile as the client sends it
Profiles == {[id |-> pid, email |-> email] : pid \in ProviderIds, email \in SocialEmails}

\* email.split('@')[0] + Math.floor(Math.random() * 1000)
GeneratedUsernames(email) ==
    IF email = "alice@x.com" THEN {"alice7"}
    ELSE IF email = "carol@x.com" THEN {"carol7"}
    ELSE {"dave7"}

FindLink(provider, providerId) ==
    {k \in DOMAIN socials : socials[k].provider = provider
                            /\ socials[k].providerId = providerId}

PendingSocialInserts ==
    Cardinality({q \in SReqs : sreq[q].op = "socialAuth"
                               /\ sreq[q].pc \in {"findUser", "saveUser"}})

\* the local variables of a socialAuth call; created is the identity the
\* call inserted (0 when none), linked tells whether the link was in the
\* table when the call arrived
SocialLocals(provider, profile, token, linked) ==
    [provider |-> provider, profile |-> profile, accessToken |-> token,
     userId |-> 0, isNewUser |-> FALSE, created |-> 0, linked |-> linked]

\* AuthService.socialAuth: the profile check and findOne({ provider,
\* providerId }) with its user
SocialFindLink(r) ==
    /\ CanStart(r)
    /\ Len(users) + PendingSocialInserts < MaxUsers
    /\ \E provider \in Providers, token \in ExternalTokens, profile \in Profiles \cup {None} :
        IF profile = None
        THEN sreq' = [sreq EXCEPT ![r] = [IdleReq EXCEPT !.op = "socialAuth",
                        !.pc = "done", !.resp = Resp(401, "Invalid social profile data")]]
        ELSE LET found == FindLink(provider, profile.id)
                 locals == SocialLocals(provider, profile, token, found # {})
                 base == [IdleReq EXCEPT !.op = "socialAuth", !.email = profile.email] IN
             IF found # {}
             THEN sreq' = [sreq EXCEPT ![r] = [base EXCEPT !.pc = "lastLogin",
                            !.snap = [locals EXCEPT !.userId =
                                        socials[CHOOSE k \in found : TRUE].userId]]]
             ELSE sreq' = [sreq EXCEPT ![r] = [base EXCEPT !.pc = "findUser",
                            !.snap = locals]]
    /\ UNCHANGED <<now, ticks, users, vtokens, resets, clientVars, accountVars>>

\* userRepository.findOne({ email }); userRepository.create({...}) when
\* there is none
SocialFindUser(r) ==
    /\ sreq[r].op = "socialAuth"
    /\ sreq[r].pc = "findUser"
    /\ LET found == FindUserByEmail(sreq[r].email) IN
        IF found = {}
        THEN sreq' = [sreq EXCEPT ![r].pc = "saveUser", ![r].snap.isNewUser = TRUE]
        ELSE sreq' = [sreq EXCEPT ![r].pc = "saveUser",
                                  ![r].snap.userId = CHOOSE u \in found : TRUE]
    /\ UNCHANGED <<now, ticks, users, vtokens, resets, clientVars, accountVars>>

\* await userRepository.save(user): an insert for a created identity
\* (rejected by a unique column), nothing to write for a loaded one
SocialSaveUser(r) ==
    /\ sreq[r].op = "socialAuth"
    /\ sreq[r].pc = "saveUser"
    /\ IF ~sreq[r].snap.isNewUser
       THEN /\ sreq' = [sreq EXCEPT ![r].pc = "saveLink"]
            /\ users' = users
       ELSE \E username \in GeneratedUsernames(sreq[r].email) :
            IF UniqueViolation(sreq[r].email, username)
            THEN /\ sreq' = [sreq EXCEPT ![r].pc = "done",
                            ![r].resp = Resp(401, "duplicate key value violates unique constraint")]
                 /\ users' = users
            ELSE /\ users' = Append(users,
                        [email |-> sreq[r].email, username |-> username,
                         password |-> HashPassword(Plain("random")),
                         isVerified |-> TRUE, isActive |-> TRUE, isLocked |-> FALSE])
                 /\ sreq' = [sreq EXCEPT ![r].pc = "saveLink",
                                         ![r].snap.userId = Len(users) + 1,
                                         ![r].snap.created = Len(users) + 1]
    /\ UNCHANGED <<now, ticks, vtokens, resets, clientVars, accountVars>>

\* socialRepository.create({...}); await socialRepository.save(...): the
\* insert is rejected when (providerId, provider) is in the table
SocialSaveLink(r) ==
    /\ sreq[r].op = "socialAuth"
    /\ sreq[r].pc = "saveLink"
    /\ IF FindLink(sreq[r].snap.provider, sreq[r].snap.profile.id) # {}
       THEN /\ sreq' = [sreq EXCEPT ![r].pc = "done",
                        ![r].resp = Resp(401, "duplicate key value violates unique constraint")]
            /\ socials' = socials
       ELSE /\ socials' = Append(socials,
                    [provider |-> sreq[r].snap.provider,
                     providerId |-> sreq[r].snap.profile.id,
                     userId |-> sreq[r].snap.userId,
                     accessToken |-> sreq[r].snap.accessToken,
                     profile |-> sreq[r].snap.profile])
            /\ sreq' = [sreq EXCEPT ![r].pc = "lastLogin"]
    /\ UNCHANGED <<now, ticks, users, vtokens, resets, clientVars,
                   jwts, outbox, deletedUsers>>

\* user.lastLogin = new Date(); await userRepository.save(user) (the
\* BeforeUpdate hook hashes the password of a created identity once
\* more); generateTokens; 200.  The link found at the start is not written
SocialLastLogin(r) ==
    /\ sreq[r].op = "socialAuth"
    /\ sreq[r].pc = "lastLogin"
    /\ LET u == sreq[r].snap.userId
           pair == GenerateTokens(u, now) IN
        /\ users' = IF sreq[r].snap.created # 0
                    THEN [users EXCEPT ![u].password = HashPassword(@)]
                    ELSE users
        /\ socials' = socials
        /\ jwts' = jwts \cup TokensOf(pair)
        /\ sreq' = [sreq EXCEPT ![r].pc = "done",
                        ![r].resp = [status |-> 200,
                                     message |-> "Social authentication successful",
                                     user |-> ToResponseObject(
                                                IF sreq[r].snap.created # 0
                                                THEN users'[u] ELSE LoadUser(u)),
                                     tokens |-> pair,
                                     isNewUser |-> sreq[r].snap.isNewUser]]
    /\ UNCHANGED <<now, ticks, vtokens, resets, clientVars, outbox, deletedUsers>>

NextSocial ==
    \/ \E r \in SReqs : SocialFindLink(r)
    \/ \E r \in SReqs : SocialFindUser(r)
    \/ \E r \in SReqs : SocialSaveUser(r)
    \/ \E r \in SReqs : SocialSaveLink(r)
    \/ \E r \in SReqs : SocialLastLogin(r)

SpecSocial == Init /\ [][NextSocial]_vars

(***************************************************************************)
(* Properties of the social sign-in                                        *)
(***************************************************************************)
\* the socialAuth calls made for one external account
CallsFor(provider, providerId) ==
    {r \in SReqs : /\ sreq[r].op = "socialAuth"
                   /\ "profile" \in DOMAIN sreq[r].snap
                   /\ sreq[r].snap.provider = provider
                   /\ sreq[r].snap.profile.id = providerId}

\* C16: for every (provider, providerId) there is at most one link, the
\* socialAuth calls made with it have created at most one identity, and a
\* call that finds the link reports isNewUser = false.
C16_OneIdentityPerExternalAccount ==
    \A provider \in Providers, pid \in ProviderIds :
        /\ Cardinality(FindLink(provider, pid)) <= 1
        /\ Cardinality({sreq[r].snap.created : r \in CallsFor(provider, pid)} \ {0}) <= 1
        /\ \A r \in CallsFor(provider, pid) :
             sreq[r].pc = "done" /\ sreq[r].resp.status = 200 /\ sreq[r].snap.linked
                => ~sreq[r].resp.isNewUser /\ sreq[r].snap.created = 0

\* C17: when a socialAuth call succeeds, the stored link of its external
\* account holds the access token and the profile of that call.
C17_LinkRepersisted ==
    [][ \A r \in SReqs :
          (/\ sreq[r].op = "socialAuth" /\ sreq[r].pc # "done"
           /\ sreq'[r].pc = "done" /\ sreq'[r].resp.status = 200)
             => \E k \in DOMAIN socials' :
                  /\ socials'[k].provider = sreq[r].snap.provider
                  /\ socials'[k].providerId = sreq[r].snap.profile.id
                  /\ socials'[k].accessToken = sreq[r].snap.accessToken
                  /\ socials'[k].profile = sreq[r].snap.profile
      ]_vars

(***************************************************************************)
(* Further properties of the accounts and of the gate                      *)
(***************************************************************************)
\* C27: once a login with an email and a password has succeeded, a later
\* login with the same email and password passes the password check
\* (SpecAccounts has no password change, reset, lock or deactivation).
C27_LoginKeepsCredential ==
    [][ \A r \in SReqs :
          (/\ sreq[r].pc = "idle" /\ sreq'[r].op = "login"
           /\ \E q \in SReqs :
                /\ Succeeded(q, "login")
                /\ sreq[q].email = sreq'[r].email
                /\ sreq[q].password = sreq'[r].password)
             => sreq'[r].pc = "save"
      ]_vars

\* the response carries a token pair
IssuesTokens(resp) == "tokens" \in DOMAIN resp

\* C28: no step answers with a token pair for an identity that is locked
\* or inactive as the step is taken.
C28_NoTokensForBlockedIdentity ==
    [][ \A r \in SReqs :
          (sreq[r].pc # "done" /\ sreq'[r].pc = "done" /\ IssuesTokens(sreq'[r].resp))
             => LET u == sreq'[r].resp.tokens.accessToken.payload.id IN
                users[u].isActive /\ ~users[u].isLocked
      ]_vars

\* C30: a register that answers anything but 201 has saved no identity and
\* no verification token.
C30_RegisterAllOrNothing ==
    \A r \in SReqs :
        Answered(r, "register") /\ sreq[r].resp.status # 201
            => sreq[r].snap.writes = 0

(***************************************************************************)
(* Persistence failures (SpecFaults): the server side of Spec, where the   *)
(* save of a token row may be rejected by the database.  Neither           *)
(* verifyEmail nor resetPassword runs in a transaction.                    *)
(***************************************************************************)
\* the message of the error tokenRepository.save / resetRepository.save
\* throws, which the controller passes on with 400
TokenSaveFailed == "QueryFailedError"

\* await tokenRepository.save(verificationToken) throws
VerifyEmailSaveTokenFails(r) ==
    /\ sreq[r].op = "verifyEmail"
    /\ sreq[r].pc = "saveToken"
    /\ sreq' = [sreq EXCEPT ![r].pc = "done",
                            ![r].resp = Resp(400, TokenSaveFailed)]
    /\ UNCHANGED <<now, ticks, users, vtokens, resets, clientVars, accountVars>>

\* await resetRepository.save(passwordReset) throws
ResetPasswordSaveTokenFails(r) ==
    /\ sreq[r].op = "resetPassword"
    /\ sreq[r].pc = "saveToken"
    /\ sreq' = [sreq EXCEPT ![r].pc = "done",
                            ![r].resp = Resp(400, TokenSaveFailed)]
    /\ UNCHANGED <<now, ticks, users, vtokens, resets, clientVars, accountVars>>

NextFaults ==
    \/ Tick
    \/ \E r \in SReqs : VerifyEmailFind(r)
    \/ \E r \in SReqs : VerifyEmailSaveUser(r)
    \/ \E r \in SReqs : VerifyEmailSaveToken(r)
    \/ \E r \in SReqs : VerifyEmailSaveTokenFails(r)
    \/ \E r \in SReqs : ResetPasswordFind(r)
    \/ \E r \in SReqs : ResetPasswordSaveUser(r)
    \/ \E r \in SReqs : ResetPasswordSaveToken(r)
    \/ \E r \in SReqs : ResetPasswordSaveTokenFails(r)

SpecFaults == Init /\ [][NextFaults]_vars

\* the call of r has ended after it saved the identity
EffectApplied(r, op) ==
    /\ Answered(r, op)
    /\ sreq[r].resp.status = 200 \/ sreq[r].resp.message = TokenSaveFailed

\* C29: when a verifyEmail or resetPassword call has ended after applying
\* its effect to the identity, its token has isUsed = true, and no token
\* has had its effect applied by two calls.
C29_ConsumeAtomicWithEffect ==
    /\ \A r \in SReqs :
        /\ EffectApplied(r, "verifyEmail") => vtokens[sreq[r].token].isUsed
        /\ EffectApplied(r, "resetPassword") => resets[sreq[r].token].isUsed
    /\ \A r, q \in SReqs :
        (/\ r # q /\ sreq[r].op = sreq[q].op /\ sreq[r].token = sreq[q].token
         /\ \E op \in {"verifyEmail", "resetPassword"} :
                EffectApplied(r, op) /\ EffectApplied(q, op))
            => FALSE

(***************************************************************************)
(* Expiry boundary (SpecExpiry): verifyEmail on tokens of register and of  *)
(* resendVerification while the clock moves around the 24 hours.           *)
(***************************************************************************)
BoundarySteps == {1, 2, VerificationLifetimeMs - 1}

TickBoundary ==
    /\ ticks < MaxTicks
    /\ \E d \in BoundarySteps : now' = now + d
    /\ ticks' = ticks + 1
    /\ UNCHANGED <<users, vtokens, resets, sreq, clientVars, accountVars>>

NextExpiry ==
    \/ TickBoundary
    \/ \E r \in SReqs : ResendFind(r)
    \/ \E r \in SReqs : ResendSaveToken(r)
    \/ \E r \in SReqs : ResendSendEmail(r)
    \/ \E r \in SReqs : VerifyEmailFind(r)
    \/ \E r \in SReqs : VerifyEmailSaveUser(r)
    \/ \E r \in SReqs : VerifyEmailSaveToken(r)

SpecExpiry == Init /\ [][NextExpiry]_vars

\* C22: verifyEmail called with an unused token created at T goes on to
\* consume it exactly when the call is made at a time <= T + 24h, and
\* answers 400 otherwise.
C22_ExpiryBoundary ==
    [][ \A r \in SReqs :
          (/\ sreq[r].pc = "idle" /\ sreq'[r].op = "verifyEmail"
           /\ sreq'[r].token \in DOMAIN vtokens
           /\ ~vtokens[sreq'[r].token].isUsed)
             => IF now <= vtokens[sreq'[r].token].createdAt + 24 * 60 * 60 * 1000
                THEN sreq'[r].pc = "saveUser"
                ELSE sreq'[r].pc = "done" /\ sreq'[r].resp.status = 400
      ]_vars

\* C22 witness: one millisecond after the 24 hours of token 1 a call with
\* it has been refused, while a call made with it earlier was accepted.
C22_Witness ==
    /\ now = vtokens[1].createdAt + 24 * 60 * 60 * 1000 + 1
    /\ ~vtokens[1].isUsed
    /\ \E r, q \in SReqs :
        /\ sreq[r].op = "verifyEmail" /\ sreq[r].token = 1 /\ sreq[r].pc = "saveUser"
        /\ Answered(q, "verifyEmail") /\ sreq[q].token = 1
        /\ sreq[q].resp = Resp(400, "Verification token has expired")

(***************************************************************************)
(* Password change (SpecPassword): AuthService.changePassword behind       *)
(* AuthController.changePassword and the authenticate middleware, with     *)
(* verifyEmail and login.                                                  *)
(***************************************************************************)
\* bcrypt.compare of currentPassword with the loaded hash
CurrentPasswordAcceptedAlways(candidate, stored) == TRUE
CurrentPasswordAccepted(candidate, stored) == ComparePassword(candidate, stored)

\* AuthController.changePassword's validation, then
\* AuthService.changePassword up to its save: the query by id with the
\* password column and comparePassword
ChangePasswordFind(r) ==
    /\ CanStart(r)
    /\ \E u \in DOMAIN users, current \in PlainPasswords,
          newPassword \in PlainPasswords, confirm \in PlainPasswords :
        LET base == [sreq[r] EXCEPT !.op = "changePassword",
                        !.email = users[u].email, !.password = newPassword,
                        !.snap = [userId |-> u, current |-> current,
                                  confirm |-> confirm]] IN
        IF confirm # newPassword
        THEN sreq' = [sreq EXCEPT ![r] = [base EXCEPT !.pc = "done",
                        !.resp = Resp(400, "validation errors")]]
        ELSE IF ~FindUserById(u)
        THEN sreq' = [sreq EXCEPT ![r] = [base EXCEPT !.pc = "done",
                        !.resp = Resp(400, "User not found")]]
        ELSE IF ~CurrentPasswordAccepted(current, users[u].password)
        THEN sreq' = [sreq EXCEPT ![r] = [base EXCEPT !.pc = "done",
                        !.resp = Resp(400, "Current password is incorrect")]]
        ELSE sreq' = [sreq EXCEPT ![r] = [base EXCEPT !.pc = "save"]]
    /\ UNCHANGED <<now, ticks, users, vtokens, resets, clientVars, accountVars>>

\* user.password = newPassword; await userRepository.save(user) (the
\* BeforeUpdate hook hashes the assigned password)
ChangePasswordSave(r) ==
    /\ sreq[r].op = "changePassword"
    /\ sreq[r].pc = "save"
    /\ users' = [users EXCEPT ![sreq[r].snap.userId].password =
                                    HashPassword(Plain(sreq[r].password))]
    /\ sreq' = [sreq EXCEPT ![r].pc = "done",
                            ![r].resp = Resp(200, "Password changed successfully")]
    /\ UNCHANGED <<now, ticks, vtokens, resets, clientVars, accountVars>>

NextPassword ==
    \/ \E r \in SReqs : Release(r)
    \/ \E r \in SReqs : VerifyEmailFind(r)
    \/ \E r \in SReqs : VerifyEmailSaveUser(r)
    \/ \E r \in SReqs : VerifyEmailSaveToken(r)
    \/ \E r \in SReqs : ChangePasswordFind(r)
    \/ \E r \in SReqs : ChangePasswordSave(r)
    \/ \E r \in SReqs : LoginFind(r)
    \/ \E r \in SReqs : LoginSave(r)

SpecPassword == Init /\ [][NextPassword]_vars

GetCurrentUser(r) ==
    /\ CanStart(r)
    /\ \E h \in Headers :
        LET out == Gate(h, now) IN
        sreq' = [sreq EXCEPT ![r] = [IdleReq EXCEPT !.op = "getCurrentUser",
                    !.pc = "done", !.snap = [header |-> h, user |-> out.user],
                    !.resp = IF out.user = 0 THEN out.resp
                             ELSE [status |-> 200, message |-> "",
                                   user |-> LoadUser(out.user)]]]
    /\ UNCHANGED <<now, ticks, users, vtokens, resets, clientVars, accountVars>>

NextResponses ==
    \/ \E r \in SReqs : RegisterFindEmail(r)
    \/ \E r \in SReqs : RegisterFindUsername(r)
    \/ \E r \in SReqs : RegisterSaveUser(r)
    \/ \E r \in SReqs : RegisterSaveToken(r)
    \/ \E r \in SReqs : RegisterSendEmail(r)
    \/ \E r \in SReqs : VerifyEmailFind(r)
    \/ \E r \in SReqs : VerifyEmailSaveUser(r)
    \/ \E r \in SReqs : VerifyEmailSaveToken(r)
    \/ \E r \in SReqs : LoginFind(r)
    \/ \E r \in SReqs : LoginSave(r)
    \/ \E r \in SReqs : SocialFindLink(r)
    \/ \E r \in SReqs : SocialFindUser(r)
    \/ \E r \in SReqs : SocialSaveUser(r)
    \/ \E r \in SReqs : SocialSaveLink(r)
    \/ \E r \in SReqs : SocialLastLogin(r)
    \/ \E r \in SReqs : GetCurrentUser(r)

SpecResponses == Init /\ [][NextResponses]_vars

\* the stored password hashes
PasswordHashes == {users[u].password : u \in DOMAIN users}

\* C24: no response carries a password: the User of a response has no
\* password property and none of its values is a stored hash.
C24_NoPasswordInResponse ==
    \A r \in SReqs :
        (sreq[r].pc = "done" /\ "user" \in DOMAIN sreq[r].resp) =>
            /\ "password" \notin DOMAIN sreq[r].resp.user
            /\ \A f \in {"email", "username"} :
                 Plain(sreq[r].resp.user[f]) \notin PasswordHashes

\* C24 witness: a registration and a GET /auth/me have both answered with a
\* User whose stored row holds a password hash.
C24_Witness ==
    \E r, q \in SReqs :
        /\ Answered(r, "register") /\ sreq[r].resp.status = 201
        /\ Succeeded(q, "getCurrentUser")
        /\ \E u \in DOMAIN users :
             /\ users[u].email = sreq[r].resp.user.email
             /\ "password" \in DOMAIN users[u]
        /\ \E u \in DOMAIN users :
             /\ users[u].email = sreq[q].resp.user.email
             /\ "password" \in DOMAIN users[u]

(***************************************************************************)
(* The proactive refresh timer of the client                               *)
(***************************************************************************)
\* the step is the callback of a timer starting to run as task t
TimerCallbackStarts(t) == task[t].pc = "idle" /\ task'[t].kind = "timer"

\* C25: at most one refresh timer is pending, and only while tokens are
\* stored, the handle of the service being that timer; a step that clears
\* the stored tokens leaves no timer pending, and a timer callback starts
\* only with tokens stored.
C25_OneTimerWhileTokensStored ==
    [][ /\ pendingTimers' <= 1
        /\ pendingTimers' > 0
           => /\ refreshTimeoutId' = "live"
              /\ accessToken' # NoItem /\ refreshToken' # NoItem
              /\ tokenExpiry' # NoItem
        /\ (accessToken # NoItem /\ accessToken' = NoItem) => pendingTimers' = 0
        /\ \A t \in Tasks : TimerCallbackStarts(t) => accessToken # NoItem
      ]_vars

\* C25 witness: two logins have stored their pairs one after the other, no
\* timer has fired, and one timer is pending.
C25_Witness ==
    /\ \A t \in Tasks : task[t].kind = "login" /\ task[t].pc = "ok"
    /\ pendingTimers = 1 /\ refreshTimeoutId = "live"
    /\ accessToken = issued

\* the step ends a login of task t with a pair
LoginSucceeds(t) ==
    task[t].kind = "login" /\ task[t].pc = "sent" /\ task'[t].pc = "ok"

\* C26: a cleared session (no key stored, as logout and a failed refresh
\* leave it) stays cleared and without a pending timer until a login
\* succeeds: the answer to a refresh call that was in flight when the
\* session was cleared neither stores tokens nor arms the timer.
C26_ClearedSessionStaysCleared ==
    [][ StoreCleared(accessToken, refreshToken, tokenExpiry)
        => \/ /\ StoreCleared(accessToken', refreshToken', tokenExpiry')
              /\ pendingTimers' = 0
           \/ \E t \in Tasks : LoginSucceeds(t)
      ]_vars

(***************************************************************************)
(* Client start (SpecStart): the constructor of AuthService finds in       *)
(* localStorage what an earlier page left there.                           *)
(***************************************************************************)
\* the pair an earlier page may have stored, and its expiry
StoredTokens == {NoItem, 1}
StoredExpiries == {NoItem, DateNow - 1, DateNow + ExpiresInSeconds * 1000}

InitStart ==
    /\ ServerInit
    /\ accessToken \in StoredTokens
    /\ refreshToken \in StoredTokens
    /\ tokenExpiry \in StoredExpiries
    /\ refreshTimeoutId = "null"
    /\ pendingTimers = 0
    /\ task = [t \in Tasks |-> IdleTask]
    /\ issued = 1
    /\ accessExpiredUpTo \in {0, 1}
    /\ refreshExpiredUpTo \in {0, 1}
    /\ refreshExpiredUpTo <= accessExpiredUpTo
    /\ (tokenExpiry = DateNow - 1) => accessExpiredUpTo = 1
    /\ events = {}
    /\ settled = NoSettle
    /\ discarded = FALSE

\* the constructor has run
Constructed == task[1].kind = "init"

\* AuthService.initTokenRefresh, called at the end of the constructor
InitTokenRefresh(t) ==
    /\ t = 1
    /\ CanStartTask(t)
    /\ LET tk == [IdleTask EXCEPT !.kind = "init"] IN
       IF accessToken # NoItem /\ tokenExpiry # NoItem
       THEN IF tokenExpiry - DateNow > 0
            THEN /\ task' = [task EXCEPT ![t] = Finished(tk, "ok")]
                 /\ Commit(SetupTokenRefresh(CurStore))
            ELSE IF refreshToken # NoItem
            THEN /\ task' = [task EXCEPT ![t] = [tk EXCEPT !.pc = "refreshing",
                                                    !.chain = <<refreshToken>>]]
                 /\ UNCHANGED storeVars
            ELSE /\ task' = [task EXCEPT ![t] = Finished(tk, "ok")]
                 /\ Commit(ClearTokens(CurStore))
       ELSE /\ task' = [task EXCEPT ![t] = Finished(tk, "ok")]
            /\ UNCHANGED storeVars
    /\ events' = {}
    /\ settled' = NoSettle
    /\ UNCHANGED <<issued, discarded>>
    /\ UNCHANGED <<serverVars, accessExpiredUpTo, refreshExpiredUpTo>>

\* the application calls the service it has constructed
ApiSendStarted(t) == Constructed /\ ApiSend(t)

NextStart ==
    \/ \E t \in Tasks : InitTokenRefresh(t)
    \/ \E t \in Tasks : ApiSendStarted(t)
    \/ \E t \in Tasks : Respond(t)
    \/ \E t \in Tasks : RefreshRespond(t)
    \/ \E t \in Tasks : TimerFire(t)
    \/ ExpireAccess
    \/ ExpireRefresh

SpecStart == InitStart /\ [][NextStart]_vars

\* the session found at start is past its expiry
StoredExpired ==
    accessToken # NoItem /\ tokenExpiry # NoItem /\ tokenExpiry <= DateNow

\* C21: at start, a stored session past its expiry leads to one refresh
\* call and no more; without a refresh token, or when that call fails, the
\* three keys are cleared; a stored session whose expiry is ahead leads to
\* no refresh call and to a pending timer.
C21_StartRefreshOnce ==
    [][ \A t \in Tasks :
          /\ task'[t].kind = "init" => Len(task'[t].chain) <= 1
          /\ (task[t].pc = "idle" /\ task'[t].kind = "init")
             => /\ (StoredExpired /\ refreshToken # NoItem)
                   => (task'[t].pc = "refreshing" /\ Len(task'[t].chain) = 1)
                /\ (StoredExpired /\ refreshToken = NoItem)
                   => /\ task'[t].pc = "ok"
                      /\ StoreCleared(accessToken', refreshToken', tokenExpiry')
                /\ (accessToken # NoItem /\ tokenExpiry > DateNow)
                   => /\ task'[t].pc = "ok"
                      /\ pendingTimers' = 1 /\ refreshTimeoutId' = "live"
          /\ (task[t].kind = "init" /\ task[t].pc = "refreshing" /\ Answers(t)
                /\ RStatusNow(t) # 200)
             => /\ task'[t].pc = "rejected"
                /\ StoreCleared(accessToken', refreshToken', tokenExpiry')
      ]_vars
====
